---- MODULE Spec2Model ----
(***************************************************************************)
(* Model of flappy_bird_ai.py: the entities Bird and Pipe, collide(), and  *)
(* the per-generation simulation loop of fitness().                        *)
(*                                                                         *)
(* Units.  Bird.y, Bird.height, Bird.vel and every displacement are kept   *)
(* in HALF pixels (the source's floats are all multiples of 0.5: vel is 0  *)
(* or -5.5, displacement is vel*t + 2*t^2), so FLAP_VEL is -11 and a pixel *)
(* constant c is compared with y as 2 * c.  Pipe.x, Pipe.height,           *)
(* Pipe.lower, Pipe.upper and the sprite sizes are whole pixels.  A        *)
(* genome's fitness is kept in TENTHS (+0.1 is +1, -1 is -10) and a        *)
(* network output in tenths too (0.5 is 5).                                *)
(*                                                                         *)
(* Sprite sizes come from the image files loaded at lines 24-34; the       *)
(* hitmasks built from them at lines 362-370 are modelled as fully opaque  *)
(* rectangles of those sizes.                                              *)
(***************************************************************************)
EXTENDS Integers, Sequences, FiniteSets, TLC

VARIABLES
    pc,           \* "running": in the while loop; "returned": fitness() returned;
                  \* "error": an exception left fitness(); "bird"/"pipe": entity on its own
    genome_tuples,\* the argument of fitness(): per genome, the network it encodes
    neural_nets,  \* list of networks
    genomes,      \* list of genomes (a genome is named by its number)
    birds,        \* list of Bird objects
    pipes,        \* list of Pipe objects
    fitness,      \* genome.fitness of every genome handed to fitness(), in tenths
    score,
    ticks,        \* history: iterations of the while loop started so far
    alive_ticks,  \* history: per bird, iterations at whose start it was in birds
    removed,      \* history: per bird, why it was popped ("none" while it is in birds)
    created,      \* history: number of Pipe objects constructed
    passed_ever,  \* history: ids of the pipes whose passed flag has been set
    log           \* history: the (pipe, bird) checks of the last iteration, in order

vars == <<pc, genome_tuples, neural_nets, genomes, birds, pipes, fitness, score,
          ticks, alive_ticks, removed, created, passed_ever, log>>

----------------------------------------------------------------------------
(* Program constants *)

VELOCITY == 5
BIRD_X == 144
BIRD_Y == 256
FLOOR == 475
CEILING == 50
HEIGHT == 24
BIRD_WIDTH == 34
WIDTH == 52
PIPE_HEIGHT == 320
SPACE == 100
PIPE_X == 350
FLAP_VEL == -11
MAX_FALL == 24
BOUNCE == 12
MAX_ROTATION == 25
TILT_MARGIN == 25
ROT_VEL == 20
REWARD == 1
PENALTY == 10
THRESHOLD == 5
HEIGHT_MIN == 50
HEIGHT_MAX == 320

(* Bounds of the model *)

MaxBirds == 3
MaxTicks == 90
MaxFreeTicks == 45

----------------------------------------------------------------------------
(* Sequences *)

RemoveAt(s, i) == SubSeq(s, 1, i - 1) \o SubSeq(s, i + 1, Len(s))

\* list.index(bird): Bird defines no __eq__, so the match is object identity;
\* 0 stands for the ValueError raised when the bird is not in the list.
Index(bs, bird) ==
    IF \E i \in 1..Len(bs) : bs[i].id = bird.id
    THEN CHOOSE i \in 1..Len(bs) :
             /\ bs[i].id = bird.id
             /\ \A j \in 1..(i - 1) : bs[j].id # bird.id
    ELSE 0

Abs(n) == IF n < 0 THEN -n ELSE n

\* Python's round() of a value given in half pixels: ties go to the even integer
Round(y) ==
    IF y % 2 = 0 THEN y \div 2
    ELSE LET k == (y - 1) \div 2 IN IF k % 2 = 0 THEN k ELSE k + 1

----------------------------------------------------------------------------
(* Bird *)

NewBird(i) ==
    [id |-> i, x |-> BIRD_X, y |-> 2 * BIRD_Y, height |-> 2 * BIRD_Y,
     tick_count |-> 0, tilt |-> 0, vel |-> 0]

\* variant: flap() also applies the impulse to y
BirdFlapJumps(b) ==
    [b EXCEPT !.y = b.y + FLAP_VEL, !.height = b.y, !.tick_count = 0, !.vel = FLAP_VEL]

\* variant: flap() forgets to reset the tick counter
BirdFlapKeepsTickCount(b) == [b EXCEPT !.height = b.y, !.vel = FLAP_VEL]

BirdFlap(b) == [b EXCEPT !.height = b.y, !.tick_count = 0, !.vel = FLAP_VEL]

\* variant: the displacement is not capped
DisplacementUncapped(vel, t) ==
    LET d == vel * t + 4 * t * t
    IN  IF d < 0 THEN d - 2 * BOUNCE ELSE d

Displacement(vel, t) ==
    LET d  == vel * t + 4 * t * t
        d1 == IF d >= 2 * MAX_FALL THEN 2 * MAX_FALL ELSE d
    IN  IF d1 < 0 THEN d1 - 2 * BOUNCE ELSE d1

BirdMove(b) ==
    LET t  == b.tick_count + 1
        d  == Displacement(b.vel, t)
        y1 == b.y + d
        tl == IF d < 0 \/ y1 < b.height + 2 * TILT_MARGIN
              THEN (IF b.tilt < MAX_ROTATION THEN MAX_ROTATION ELSE b.tilt)
              ELSE (IF b.tilt >= -70 THEN b.tilt - ROT_VEL ELSE b.tilt)
    IN  [b EXCEPT !.tick_count = t, !.y = y1, !.tilt = tl]

----------------------------------------------------------------------------
(* Pipe *)

\* variant: the lower pipe is placed SPACE below the upper pipe's top edge
SetHeightFromUpper(p, h) ==
    [p EXCEPT !.height = h, !.lower = (h - PIPE_HEIGHT) + SPACE, !.upper = h - PIPE_HEIGHT]

SetHeight(p, h) ==
    [p EXCEPT !.height = h, !.lower = h + SPACE, !.upper = h - PIPE_HEIGHT]

NewPipe(x, h, i) ==
    SetHeight([id |-> i, x |-> x, height |-> 0, lower |-> 0, upper |-> 0,
               passed |-> FALSE], h)

PipeMove(p) == [p EXCEPT !.x = p.x - VELOCITY]

----------------------------------------------------------------------------
(* collide *)

\* Mask.overlap of the bird mask with a fully set w x h mask at offset (ox, oy)
Overlap(ox, oy, w, h) ==
    /\ ox < BIRD_WIDTH
    /\ ox + w > 0
    /\ oy < HEIGHT
    /\ oy + h > 0

Collide(pipe, bird) ==
    LET ox == pipe.x - bird.x
        upper_collision == Overlap(ox, pipe.upper - Round(bird.y), WIDTH, PIPE_HEIGHT)
        lower_collision == Overlap(ox, pipe.lower - Round(bird.y), WIDTH, PIPE_HEIGHT)
    IN  upper_collision \/ lower_collision

----------------------------------------------------------------------------
(* Networks.  net.activate() is code of the neat library; a network is     *)
(* modelled by what it returns: a constant, a step of bird.y, a step of    *)
(* the difference of the two distances, or (kind "free") any value of      *)
(* Outputs on each call.                                                   *)

Const(c) == [kind |-> "const", c |-> c]
YThr(c)  == [kind |-> "ythr",  c |-> c]
Diff(c)  == [kind |-> "diff",  c |-> c]
Free     == [kind |-> "free",  c |-> 0]

\* the network that flaps when |y - height| - |y - lower| > -40 pixels, which keeps
\* the bird at the height of the gap of the pipe it is shown
Tracker == Diff(2 * (-40))

NetSet == {Const(0), Const(5), Const(10), YThr(2 * 225), YThr(2 * 206), Tracker}

Outputs == {0, 10}

Heights == {50, 185, 319}

Activate(net, in1, in2, in3, o) ==
    CASE net.kind = "const" -> net.c
      [] net.kind = "ythr"  -> IF in1 > net.c THEN 10 ELSE 0
      [] net.kind = "diff"  -> IF in2 - in3 > net.c THEN 10 ELSE 0
      [] OTHER              -> o

----------------------------------------------------------------------------
(* fitness(): one iteration of the while loop, on a record st of the       *)
(* loop's locals.                                                          *)

\* variant: the switch to pipes[1] is made at the left edge of pipes[0]
SelPipeLeftEdge(bs, ps) ==
    IF Len(ps) > 1 /\ bs[1].x > ps[1].x THEN 2 ELSE 1

\* lines 394-397
SelPipe(bs, ps) ==
    IF Len(ps) > 1 /\ bs[1].x > ps[1].x + WIDTH THEN 2 ELSE 1

\* variant: an output of exactly 0.5 already makes the bird flap
UpdateBirdFlapsAtHalf(st, i, sel, o) ==
    LET bird   == st.birds[i]
        k      == Index(st.birds, bird)
        moved  == BirdMove(bird)
        output == Activate(st.neural_nets[k].net, moved.y,
                           Abs(moved.y - 2 * st.pipes[sel].height),
                           Abs(moved.y - 2 * st.pipes[sel].lower), o)
        after  == IF output >= THRESHOLD THEN BirdFlap(moved) ELSE moved
    IN  [st EXCEPT !.fitness[st.genomes[k]] = @ + REWARD, !.birds[i] = after]

\* lines 399-412, body of "for bird in birds" for the bird at position i
UpdateBird(st, i, sel, o) ==
    LET bird   == st.birds[i]
        k      == Index(st.birds, bird)
        moved  == BirdMove(bird)
        output == Activate(st.neural_nets[k].net, moved.y,
                           Abs(moved.y - 2 * st.pipes[sel].height),
                           Abs(moved.y - 2 * st.pipes[sel].lower), o)
        after  == IF output > THRESHOLD THEN BirdFlap(moved) ELSE moved
    IN  [st EXCEPT !.fitness[st.genomes[k]] = @ + REWARD, !.birds[i] = after]

RECURSIVE UpdateBirds(_, _, _, _)
UpdateBirds(st, i, sel, o) ==
    IF i > Len(st.birds) THEN st
    ELSE UpdateBirds(UpdateBird(st, i, sel, o), i + 1, sel, o)

\* variant: only the ceiling is checked
OutOfBoundsNoFloor(bird) == bird.y < 2 * CEILING

OutOfBounds(bird) == bird.y >= 2 * (FLOOR - HEIGHT) \/ bird.y < 2 * CEILING

\* variant: the genome is left in its list
PopBirdKeepsGenome(st, bird, why) ==
    LET k == Index(st.birds, bird)
    IN  IF k = 0 THEN [st EXCEPT !.err = TRUE]
        ELSE [st EXCEPT !.neural_nets = RemoveAt(@, k),
                        !.birds = RemoveAt(@, k),
                        !.removed[bird.id] = why]

\* the three pops of lines 423-425 and 428-430, each at birds.index(bird)
PopBird(st, bird, why) ==
    LET k == Index(st.birds, bird)
    IN  IF k = 0 THEN [st EXCEPT !.err = TRUE]
        ELSE [st EXCEPT !.neural_nets = RemoveAt(@, k),
                        !.genomes = RemoveAt(@, k),
                        !.birds = RemoveAt(@, k),
                        !.removed[bird.id] = why]

\* variant: the collision costs the penalty but the bird is left in the lists
HitPipeKeepsBird(st, pipe, bird) ==
    IF Collide(pipe, bird)
    THEN LET k == Index(st.birds, bird)
         IN  IF k = 0 THEN [st EXCEPT !.err = TRUE]
             ELSE [st EXCEPT !.fitness[st.genomes[k]] = @ - PENALTY]
    ELSE st

\* lines 421-425
HitPipe(st, pipe, bird) ==
    IF Collide(pipe, bird)
    THEN LET k == Index(st.birds, bird)
         IN  IF k = 0 THEN [st EXCEPT !.err = TRUE]
             ELSE PopBird([st EXCEPT !.fitness[st.genomes[k]] = @ - PENALTY],
                          bird, "collision")
    ELSE st

\* variant: leaving the bounds costs the collision penalty too
HitBoundsPenalised(st, bird) ==
    IF OutOfBounds(bird)
    THEN LET k == Index(st.birds, bird)
         IN  IF k = 0 THEN [st EXCEPT !.err = TRUE]
             ELSE [st EXCEPT !.fitness[st.genomes[k]] = @ - PENALTY,
                             !.neural_nets = RemoveAt(@, k),
                             !.genomes = RemoveAt(@, k),
                             !.birds = RemoveAt(@, k),
                             !.removed[bird.id] =
                                 IF bird.y < 2 * CEILING THEN "ceiling" ELSE "floor"]
    ELSE st

\* lines 427-430
HitBounds(st, bird) ==
    IF OutOfBounds(bird)
    THEN PopBird(st, bird, IF bird.y < 2 * CEILING THEN "ceiling" ELSE "floor")
    ELSE st

\* variant: every bird to the right of pipes[0] scores, on every iteration
PassPipeCountsEveryBird(st, bird, h) ==
    IF st.pipes[1].x < bird.x
    THEN IF ~st.pipes[1].passed
         THEN [st EXCEPT !.pipes = Append([@ EXCEPT ![1].passed = TRUE],
                                          NewPipe(PIPE_X, h, st.created + 1)),
                         !.score = @ + 1,
                         !.created = @ + 1,
                         !.passed_ever = @ \cup {st.pipes[1].id}]
         ELSE [st EXCEPT !.score = @ + 1]
    ELSE st

\* lines 432-435
PassPipe(st, bird, h) ==
    IF st.pipes[1].x < bird.x /\ ~st.pipes[1].passed
    THEN [st EXCEPT !.pipes = Append([@ EXCEPT ![1].passed = TRUE],
                                     NewPipe(PIPE_X, h, st.created + 1)),
                    !.score = @ + 1,
                    !.created = @ + 1,
                    !.passed_ever = @ \cup {st.pipes[1].id}]
    ELSE st

\* lines 420-435, body of "for bird in birds" for one pipe and one bird
\* (log records which of the three conditions this check found true and acted on)
CheckBird(st, j, bird, h) ==
    LET s1 == HitPipe(st, st.pipes[j], bird)
        s2 == IF s1.err THEN s1 ELSE HitBounds(s1, bird)
        s3 == IF s2.err THEN s2 ELSE PassPipe(s2, bird, h)
    IN  [s3 EXCEPT !.log = Append(@, [pipe |-> st.pipes[j].id,
                                      bird |-> bird.id,
                                      hit |-> Collide(st.pipes[j], bird),
                                      out |-> Len(s2.birds) < Len(s1.birds),
                                      pass |-> s3.score > s2.score])]

\* lines 419-435: the list iterator reads birds[i] of the list as it is now
RECURSIVE CheckBirds(_, _, _, _)
CheckBirds(st, j, i, h) ==
    IF st.err \/ i > Len(st.birds) THEN st
    ELSE CheckBirds(CheckBird(st, j, st.birds[i], h), j, i + 1, h)

\* lines 417-435: the list iterator reads pipes[j] of the list as it is now
RECURSIVE CheckPipes(_, _, _)
CheckPipes(st, j, h) ==
    IF st.err \/ j > Len(st.pipes) THEN st
    ELSE CheckPipes(CheckBirds([st EXCEPT !.pipes[j] = PipeMove(@)], j, 1, h),
                    j + 1, h)

\* variant: pipes[0] is dropped as soon as it is to the left of the birds
DropPipeAtBird(st) ==
    IF st.err THEN st
    ELSE IF st.pipes[1].x < BIRD_X THEN [st EXCEPT !.pipes = Tail(@)] ELSE st

\* lines 437-438
DropPipe(st) ==
    IF st.err THEN st
    ELSE IF st.pipes[1].x < -WIDTH THEN [st EXCEPT !.pipes = Tail(@)] ELSE st

Locals ==
    [neural_nets |-> neural_nets, genomes |-> genomes, birds |-> birds,
     pipes |-> pipes, fitness |-> fitness, score |-> score,
     removed |-> removed, created |-> created, passed_ever |-> passed_ever,
     log |-> << >>, err |-> FALSE]

\* lines 394-438
Iteration(st, h, o) ==
    DropPipe(CheckPipes(UpdateBirds(st, 1, SelPipe(st.birds, st.pipes), o), 1, h))

----------------------------------------------------------------------------
(* The generation *)

\* lines 372-385
Setup(nets, h) ==
    /\ pc = "running"
    /\ genome_tuples = nets
    /\ neural_nets = [i \in DOMAIN nets |-> [id |-> i, net |-> nets[i]]]
    /\ genomes = [i \in DOMAIN nets |-> i]
    /\ birds = [i \in DOMAIN nets |-> NewBird(i)]
    /\ pipes = <<NewPipe(PIPE_X, h, 1)>>
    /\ fitness = [i \in DOMAIN nets |-> 0]
    /\ score = 0
    /\ ticks = 0
    /\ alive_ticks = [i \in DOMAIN nets |-> 0]
    /\ removed = [i \in DOMAIN nets |-> "none"]
    /\ created = 1
    /\ passed_ever = {}
    /\ log = << >>

Init ==
    \E n \in 0..MaxBirds : \E nets \in [1..n -> NetSet] : \E h \in Heights :
        Setup(nets, h)

HasFree == \E i \in 1..Len(neural_nets) : neural_nets[i].net.kind = "free"

TickLimit == IF HasFree THEN MaxFreeTicks ELSE MaxTicks

\* random.randrange(50, 320) is called only by an iteration that constructs a
\* Pipe, which is one that moves an unpassed pipes[0] to the left of the birds
DrawnHeights ==
    IF ~pipes[1].passed /\ pipes[1].x - VELOCITY < BIRD_X THEN Heights ELSE {HEIGHT_MIN}

\* variant: the body runs once before the population is tested (do-while)
TickBeforeTest ==
    /\ pc = "running"
    /\ ticks < TickLimit
    /\ \E h \in DrawnHeights : \E o \in (IF HasFree THEN Outputs ELSE {0}) :
         \E st \in {Iteration(Locals, h, o)} :
             /\ pc' = IF st.err THEN "error" ELSE "running"
             /\ neural_nets' = st.neural_nets
             /\ genomes' = st.genomes
             /\ birds' = st.birds
             /\ pipes' = st.pipes
             /\ fitness' = st.fitness
             /\ score' = st.score
             /\ removed' = st.removed
             /\ created' = st.created
             /\ passed_ever' = st.passed_ever
             /\ log' = st.log
    /\ ticks' = ticks + 1
    /\ UNCHANGED genome_tuples
    /\ alive_ticks' = [g \in DOMAIN alive_ticks |->
                         IF \E i \in 1..Len(birds) : birds[i].id = g
                         THEN alive_ticks[g] + 1 ELSE alive_ticks[g]]

\* one pass of the while loop, lines 387-440
Tick ==
    /\ pc = "running"
    /\ Len(birds) > 0
    /\ ticks < TickLimit
    /\ \E h \in DrawnHeights : \E o \in (IF HasFree THEN Outputs ELSE {0}) :
         \E st \in {Iteration(Locals, h, o)} :
             /\ pc' = IF st.err THEN "error" ELSE "running"
             /\ neural_nets' = st.neural_nets
             /\ genomes' = st.genomes
             /\ birds' = st.birds
             /\ pipes' = st.pipes
             /\ fitness' = st.fitness
             /\ score' = st.score
             /\ removed' = st.removed
             /\ created' = st.created
             /\ passed_ever' = st.passed_ever
             /\ log' = st.log
    /\ ticks' = ticks + 1
    /\ UNCHANGED genome_tuples
    /\ alive_ticks' = [g \in DOMAIN alive_ticks |->
                         IF \E i \in 1..Len(birds) : birds[i].id = g
                         THEN alive_ticks[g] + 1 ELSE alive_ticks[g]]

\* the loop test of line 387 fails: fitness() returns
LoopExit ==
    /\ pc = "running"
    /\ Len(birds) = 0
    /\ pc' = "returned"
    /\ UNCHANGED <<genome_tuples, neural_nets, genomes, birds, pipes, fitness,
                   score, ticks, alive_ticks, removed, created, passed_ever, log>>

Next == Tick \/ LoopExit

Spec == Init /\ [][Next]_vars

\* a population of one network whose output is arbitrary on every call
InitFree == \E h \in Heights : Setup(<<Free>>, h)

SpecFree == InitFree /\ [][Next]_vars

----------------------------------------------------------------------------
(* The loop of one bird with its counters forgotten.  The body of the loop  *)
(* only ever adds to genome.fitness and score and never reads them, and the *)
(* numbering of the pipes is history; holding them fixed leaves the birds   *)
(* and pipes of every run as they are and makes the runs of a bird that     *)
(* lives on return to states they have been in.                             *)

Renumber(ps) == [j \in 1..Len(ps) |-> [ps[j] EXCEPT !.id = j]]

InitOrbit == \E net \in NetSet : \E h \in Heights : Setup(<<net>>, h)

\* one pass of the while loop, lines 387-440
TickOrbit ==
    /\ pc = "running"
    /\ Len(birds) > 0
    /\ \E h \in DrawnHeights : \E st \in {Iteration(Locals, h, 0)} :
         /\ pc' = IF st.err THEN "error" ELSE "running"
         /\ neural_nets' = st.neural_nets
         /\ genomes' = st.genomes
         /\ birds' = st.birds
         /\ pipes' = Renumber(st.pipes)
         /\ removed' = st.removed
         /\ created' = Len(st.pipes)
         /\ passed_ever' = {j \in 1..Len(st.pipes) : st.pipes[j].passed}
    /\ log' = << >>
    /\ ticks' = (ticks + 1) % 2
    /\ UNCHANGED <<genome_tuples, fitness, score, alive_ticks>>

NextOrbit == TickOrbit \/ LoopExit

\* what every pass of the loop does to ticks, kept here modulo 2
Iterate == pc = "running" /\ Len(birds) > 0 /\ ticks' = (ticks + 1) % 2

\* the interpreter goes on executing the loop for as long as line 387 lets it
SpecOrbit == InitOrbit /\ [][NextOrbit]_vars /\ WF_ticks(Iterate)

----------------------------------------------------------------------------
(* A Bird on its own, under any sequence of flap() and move() calls.  The  *)
(* loop stops moving a bird that the bounds check of line 427 has seen.    *)

Idle ==
    /\ genome_tuples = << >> /\ neural_nets = << >> /\ genomes = << >>
    /\ fitness = << >> /\ score = 0 /\ ticks = 0 /\ alive_ticks = << >>
    /\ removed = << >> /\ created = 0 /\ passed_ever = {} /\ log = << >>

InitBird ==
    /\ pc = "bird"
    /\ birds = <<NewBird(1)>>
    /\ pipes = << >>
    /\ Idle

FlapCall ==
    /\ pc = "bird"
    /\ birds' = <<BirdFlap(birds[1])>>
    /\ UNCHANGED <<pc, genome_tuples, neural_nets, genomes, pipes, fitness, score,
                   ticks, alive_ticks, removed, created, passed_ever, log>>

MoveCall ==
    /\ pc = "bird"
    /\ ~OutOfBounds(birds[1])
    /\ birds' = <<BirdMove(birds[1])>>
    /\ UNCHANGED <<pc, genome_tuples, neural_nets, genomes, pipes, fitness, score,
                   ticks, alive_ticks, removed, created, passed_ever, log>>

NextBird == FlapCall \/ MoveCall

SpecBird == InitBird /\ [][NextBird]_vars

(* A Pipe on its own, from construction with any height randrange(50, 320) *)
(* can return until line 437 finds it off the screen.                      *)

AllHeights == HEIGHT_MIN..(HEIGHT_MAX - 1)

InitPipe ==
    /\ pc = "pipe"
    /\ birds = << >>
    /\ \E h \in AllHeights : pipes = <<NewPipe(PIPE_X, h, 1)>>
    /\ Idle

PipeMoveCall ==
    /\ pc = "pipe"
    /\ ~(pipes[1].x < -WIDTH)
    /\ pipes' = <<PipeMove(pipes[1])>>
    /\ UNCHANGED <<pc, genome_tuples, neural_nets, genomes, birds, fitness, score,
                   ticks, alive_ticks, removed, created, passed_ever, log>>

NextPipe == PipeMoveCall

SpecPipe == InitPipe /\ [][NextPipe]_vars

----------------------------------------------------------------------------
(* Claims *)

Ids == DOMAIN genome_tuples

InList(g) == \E i \in 1..Len(birds) : birds[i].id = g

InLoop == pc \in {"running", "returned", "error"}

\* C1: fitness() never raises and, when it returns, the population is empty
C1_ReturnsNormally ==
    /\ pc # "error"
    /\ pc = "returned" => Len(birds) = 0

\* C2: after an iteration's elimination pass no bird left in the population is
\* outside the floor/ceiling bounds or overlaps a pipe
C2_NoneLeftBehind ==
    (pc \in {"running", "returned"} /\ ticks > 0) =>
        \A i \in 1..Len(birds) :
            /\ ~OutOfBounds(birds[i])
            /\ \A j \in 1..Len(pipes) : ~Collide(pipes[j], birds[i])

\* C3: neural_nets, genomes and birds have the same length and position i of each
\* holds the network, genome and bird made from the same input genome; the birds
\* not in the lists are exactly the removed ones
C3_Aligned ==
    InLoop =>
        /\ Len(neural_nets) = Len(birds)
        /\ Len(genomes) = Len(birds)
        /\ \A i \in 1..Len(birds) :
              /\ neural_nets[i].id = birds[i].id
              /\ genomes[i] = birds[i].id
              /\ neural_nets[i].net = genome_tuples[birds[i].id]
              /\ \A j \in 1..Len(birds) : birds[j].id = birds[i].id => j = i
        /\ \A g \in Ids : InList(g) <=> removed[g] = "none"

C3_Witness ==
    /\ pc = "running"
    /\ Len(birds) = 2
    /\ birds[1].id = 1
    /\ birds[2].id = 3
    /\ removed[2] = "collision"

PipeIds == {pipes[j].id : j \in 1..Len(pipes)}

PipeOf(ps, id) == ps[CHOOSE j \in 1..Len(ps) : ps[j].id = id]

\* C4: a pipe's passed flag goes from False to True at most once, in a step that
\* adds 1 to the score and constructs one pipe at x = 350 (moved once by the end of
\* that iteration); the score is the number of pipes ever passed and the number of
\* pipes constructed minus one
C4_Counts ==
    /\ score = Cardinality(passed_ever)
    /\ score = created - 1
    /\ \A j \in 1..Len(pipes) : pipes[j].passed <=> pipes[j].id \in passed_ever

C4_Step ==
    LET flipped == {id \in PipeIds : ~PipeOf(pipes, id).passed /\ id \in passed_ever'}
        fresh   == {j \in 1..Len(pipes') : pipes'[j].id \notin 1..created}
    IN  /\ passed_ever \subseteq passed_ever'
        /\ score' - score = Cardinality(flipped)
        /\ Cardinality(fresh) = Cardinality(flipped)
        /\ Cardinality(flipped) <= 1
        /\ \A j \in fresh : /\ pipes'[j].x = PIPE_X - VELOCITY
                            /\ pipes'[j].id = created + 1
                            /\ ~pipes'[j].passed
        /\ \A j \in 1..Len(pipes') :
              (pipes'[j].id \in passed_ever) => pipes'[j].passed

C4_ScoreOncePerPipe ==
    [][InLoop => (C4_Counts /\ C4_Counts' /\ C4_Step)]_vars

C4_Witness ==
    /\ pc = "running"
    /\ score = 2
    /\ Len(birds) >= 2
    /\ Len(pipes) = 2
    /\ pipes[1].passed

Paid(g) == IF removed[g] = "collision" THEN PENALTY ELSE 0

\* C5: fitness is 0 before the first iteration, gains 0.1 for every iteration at
\* whose start the bird is in the population, loses 1 exactly on removal by a pipe
\* collision, and does not change once the bird has been removed
C5_Account ==
    /\ ticks = 0 => \A g \in Ids : fitness[g] = 0
    /\ \A g \in Ids : fitness[g] = REWARD * alive_ticks[g] - Paid(g)

C5_FitnessAccount ==
    [][InLoop =>
         /\ C5_Account
         /\ C5_Account'
         /\ \A g \in Ids :
               /\ removed[g] # "none" => (fitness'[g] = fitness[g] /\ removed'[g] = removed[g])
               /\ (InList(g) /\ ticks' = ticks + 1) =>
                     fitness'[g] = fitness[g] + REWARD
                                   - (IF removed'[g] = "collision" THEN PENALTY ELSE 0)
    ]_vars

C5_Witness ==
    /\ pc = "returned"
    /\ \E g \in Ids : removed[g] = "collision" /\ fitness[g] = alive_ticks[g] - PENALTY
    /\ \E g \in Ids : removed[g] = "floor" /\ fitness[g] = alive_ticks[g] /\ fitness[g] > 0
    /\ \E g \in Ids : removed[g] = "ceiling"

NoFlapPopulation ==
    \A g \in Ids : genome_tuples[g].kind = "const" /\ genome_tuples[g].c <= THRESHOLD

\* number of move() calls that take a bird that never flaps from its start to the floor
RECURSIVE Fall(_, _)
Fall(b, n) == IF OutOfBounds(b) THEN n ELSE Fall(BirdMove(b), n + 1)

FallTicks == Fall(NewBird(0), 0)

\* C6: when every bird starts at y = 256 and no network outputs more than 0.5,
\* every bird is removed (by the floor check) and fitness() returns; the loop
\* never starts more iterations than a fall to the floor takes plus one per bird:
\* while a bird is left the loop is running below that number of iterations, and
\* no exception ends it
C6_NoFlapExtinct ==
    (InLoop /\ NoFlapPopulation) =>
        /\ pc \in {"running", "returned"}
        /\ \A g \in Ids : removed[g] \in {"none", "floor"}
        /\ ticks <= FallTicks + Len(genome_tuples)
        /\ Len(birds) > 0 => (pc = "running" /\ ticks < FallTicks + Len(genome_tuples))
        /\ pc = "returned" => (Len(birds) = 0 /\ \A g \in Ids : removed[g] = "floor")

C6_Witness ==
    /\ pc = "returned"
    /\ NoFlapPopulation
    /\ Len(genome_tuples) >= 2
    /\ \E g \in Ids : genome_tuples[g] = Const(THRESHOLD)
    /\ \A g \in Ids : removed[g] = "floor"
    /\ ticks > FallTicks

OneBird(net) == InLoop /\ Len(genome_tuples) = 1 /\ genome_tuples[1] = net

Reached(p) == p.x < BIRD_X + BIRD_WIDTH

\* the parts of C7 and C8 that do not depend on the direction of flight: the
\* only removal is by the bounds check (cause why), without penalty, with no
\* point scored and no exception; no pipe ever reaches the bird's column, so the
\* bird is gone before the first pipe gets there; with the bird gone the loop
\* returns
OneBirdStep(why) ==
    /\ pc' \in {"running", "returned"}
    /\ Len(birds') = 1 => (~OutOfBounds(birds'[1]) /\ removed'[1] = "none")
    /\ Len(birds') = 0 => removed'[1] = why
    /\ fitness'[1] = REWARD * alive_ticks'[1]
    /\ score' = 0
    /\ \A j \in 1..Len(pipes') : ~Reached(pipes'[j])
    /\ (pc = "running" /\ Len(birds) = 0) => pc' = "returned"

\* C7: one bird whose network always outputs 1.0 rises on every iteration after
\* the first, is removed by the ceiling check before a pipe reaches it, without
\* penalty; fitness() returns and the score is 0
C7_AlwaysFlap ==
    [][OneBird(Const(10)) =>
            /\ OneBirdStep("ceiling")
            /\ (ticks >= 1 /\ Len(birds) = 1 /\ Len(birds') = 1 /\ ticks' = ticks + 1)
                  => birds'[1].y < birds[1].y
       ]_vars

C7_Witness ==
    /\ OneBird(Const(10))
    /\ pc = "returned"
    /\ removed[1] = "ceiling"
    /\ ticks > 1

\* C8: one bird whose network always outputs 0.0 falls on every iteration, is
\* removed by the floor check before a pipe reaches it, without penalty;
\* fitness() returns and the score is 0
C8_NeverFlap ==
    [][OneBird(Const(0)) =>
            /\ OneBirdStep("floor")
            /\ (Len(birds) = 1 /\ Len(birds') = 1 /\ ticks' = ticks + 1)
                  => birds'[1].y > birds[1].y
       ]_vars

C8_Witness ==
    /\ OneBird(Const(0))
    /\ pc = "returned"
    /\ removed[1] = "floor"
    /\ ticks = FallTicks

\* C9: no move() adds more than 24 to y
C9_FallCap ==
    [][pc = "bird" => birds'[1].y - birds[1].y <= 2 * MAX_FALL]_vars

\* the last call was a move() whose uncapped displacement exceeded 24
C9_Witness ==
    /\ pc = "bird"
    /\ birds[1].tick_count >= 1
    /\ birds[1].vel = FLAP_VEL
    /\ birds[1].vel * birds[1].tick_count
         + 4 * birds[1].tick_count * birds[1].tick_count > 2 * MAX_FALL

Gap(p) == p.lower - (p.upper + PIPE_HEIGHT) = SPACE

\* C10: for every height of 50..319 the lower pipe's top edge is exactly 100 below
\* the upper pipe's bottom edge, and a pipe's height, upper and lower never change
\* after construction: move() changes only x
C10_GapFixed ==
    [][/\ \A j \in 1..Len(pipes) : Gap(pipes[j])
       /\ \A j \in 1..Len(pipes') : Gap(pipes'[j])
       /\ \A j \in 1..Len(pipes) : \A k \in 1..Len(pipes') :
             pipes'[k].id = pipes[j].id =>
                /\ pipes'[k].height = pipes[j].height
                /\ pipes'[k].lower = pipes[j].lower
                /\ pipes'[k].upper = pipes[j].upper
                /\ pc = "pipe" => pipes'[k].x = pipes[j].x - VELOCITY
    ]_vars

C10_Witness ==
    /\ pc = "pipe"
    /\ pipes[1].height = HEIGHT_MAX - 1
    /\ pipes[1].x < -WIDTH
    /\ Gap(pipes[1])

\* C11: handed no genomes, fitness() returns at once: the loop test fails before any
\* iteration, so no pipe is moved or constructed and the score stays 0
C11_EmptyReturns ==
    [][(InLoop /\ Len(genome_tuples) = 0) =>
          /\ pc = "running" /\ pc' = "returned"
          /\ ticks' = 0 /\ score' = 0 /\ created' = 1 /\ log' = << >>
          /\ pipes' = pipes
          /\ Len(pipes') = 1 /\ pipes'[1].x = PIPE_X /\ ~pipes'[1].passed]_vars

C11_Witness ==
    /\ pc = "returned" /\ Len(genome_tuples) = 0
    /\ ticks = 0 /\ score = 0 /\ Len(pipes) = 1 /\ pipes[1].x = PIPE_X

\* C12: whatever the bird's tick_count, vel, y and tilt, a flap() call leaves
\* tick_count = 0 and vel = -5.5 and changes neither x nor y (a call that does not
\* add 1 to tick_count is not a move(), so it is a flap())
C12_FlapResets ==
    [][(pc = "bird" /\ birds'[1].tick_count # birds[1].tick_count + 1) =>
          /\ birds'[1].tick_count = 0
          /\ birds'[1].vel = FLAP_VEL
          /\ birds'[1].x = birds[1].x
          /\ birds'[1].y = birds[1].y]_vars

\* flap() has just been called on a bird that had already moved and tilted
C12_Witness ==
    /\ pc = "bird"
    /\ birds[1].tick_count = 0 /\ birds[1].vel = FLAP_VEL
    /\ birds[1].height = birds[1].y
    /\ birds[1].y > 2 * BIRD_Y + 100 /\ birds[1].tilt < 0

\* C13: a pipe's passed flag is set only once its right edge x + WIDTH is to the left
\* of the bird's x; while the right edge is at or beyond the bird's x it stays False
C13_PassedAfterRightEdge ==
    InLoop => \A j \in 1..Len(pipes) :
                 pipes[j].passed => pipes[j].x + WIDTH < BIRD_X

\* C14: the bird whose check raised the score in an iteration is still in birds when
\* the iteration's checks are over; a bird removed in an iteration earns no point in it
C14_ScoredBySurvivor ==
    InLoop => \A k \in 1..Len(log) : log[k].pass => InList(log[k].bird)

NotPassedByLead(j) == pipes[j].x + WIDTH >= birds[1].x

\* C15: whenever an iteration starts, the pipe whose height and lower are fed to the
\* networks is the nearest pipe whose right edge is not to the left of birds[0].x:
\* pipes[0], or pipes[1] once birds[0].x > pipes[0].x + WIDTH
C15_SensorPipe ==
    (pc = "running" /\ Len(birds) > 0) =>
        \E j \in 1..Len(pipes) :
            /\ NotPassedByLead(j)
            /\ \A i \in 1..(j - 1) : ~NotPassedByLead(i)
            /\ SelPipe(birds, pipes) = j

\* the next iteration reads pipes[1]: the lead bird is beyond the right edge of pipes[0]
C15_Witness ==
    /\ pc = "running" /\ Len(birds) > 0 /\ ticks > 60
    /\ Len(pipes) = 2 /\ pipes[1].x + WIDTH < birds[1].x
    /\ SelPipe(birds, pipes) = 2 /\ NotPassedByLead(2)

\* C16: every generation terminates: whatever the networks output and whatever
\* heights are drawn, the loop is eventually left
C16_Terminates == <>(pc # "running")

\* the loop is left only with no bird in the population (no step is counted), and
\* the bird of the gap-tracking network is in the population in every state its
\* generation reaches
C16_EndsOnlyByExtinction ==
    /\ pc = "returned" => Len(birds) = 0
    /\ OneBird(Tracker) => (pc = "running" /\ Len(birds) = 1)

\* the checks of the last iteration that popped bird g
Pops(lg, g) == {k \in 1..Len(lg) : lg[k].bird = g /\ (lg[k].hit \/ lg[k].out)}

\* C17: in one iteration a bird popped for a collision is not checked again, against
\* that pipe or a later one; a bird is popped at most once in a generation and its
\* genome pays the collision penalty at most once
C17_RemovedOnce ==
    [][(InLoop /\ ticks' = ticks + 1) =>
          /\ \A k \in 1..Len(log') : log'[k].hit =>
                 \A m \in (k + 1)..Len(log') : log'[m].bird # log'[k].bird
          /\ \A g \in Ids :
                 /\ Cardinality(Pops(log', g)) <= 1
                 /\ removed[g] # "none" =>
                        /\ \A k \in 1..Len(log') : log'[k].bird # g
                        /\ removed'[g] = removed[g]
                        /\ fitness'[g] = fitness[g]
                 /\ fitness'[g] - fitness[g] \in {0, REWARD, REWARD - PENALTY}
                 /\ fitness'[g] - fitness[g] = REWARD - PENALTY <=>
                        \E k \in 1..Len(log') : log'[k].bird = g /\ log'[k].hit]_vars

\* a bird was popped for hitting pipes[0] and another bird was then checked
\* against pipes[1]
C17_Witness ==
    /\ InLoop
    /\ \E k \in 1..Len(log) : \E m \in (k + 1)..Len(log) :
           /\ log[k].hit
           /\ log[m].pipe > log[k].pipe

BirdOf(g) == birds[CHOOSE i \in 1..Len(birds) : birds[i].id = g]

\* C18: two genomes of a generation with the same network have, after every
\* iteration, birds at the same y, or birds removed in the same iteration for the
\* same reason, and the same fitness, wherever they stand in the population
C18_PositionIndependent ==
    InLoop => \A g1, g2 \in Ids :
                 genome_tuples[g1] = genome_tuples[g2] =>
                     /\ removed[g1] = removed[g2]
                     /\ fitness[g1] = fitness[g2]
                     /\ (InList(g1) /\ InList(g2)) => BirdOf(g1).y = BirdOf(g2).y

\* C19: pipes is never empty and sel_pipe is an index of it whenever an iteration
\* starts; the only pipe an iteration drops is pipes[0], and only one that an earlier
\* iteration marked passed, whose successor is therefore already in the list
C19_PipesNeverEmpty ==
    [][InLoop =>
          /\ Len(pipes) >= 1 /\ Len(pipes') >= 1
          /\ (pc' = "running" /\ Len(birds') > 0) =>
                 SelPipe(birds', pipes') \in 1..Len(pipes')
          /\ \A j \in 1..Len(pipes) :
                 (\A i \in 1..Len(pipes') : pipes'[i].id # pipes[j].id) =>
                     /\ j = 1
                     /\ pipes[1].passed
                     /\ pipes[1].x - VELOCITY < -WIDTH
                     /\ Len(pipes) >= 2]_vars

\* the first pipe has been dropped and the loop goes on with its successor
C19_Witness ==
    /\ pc = "running" /\ Len(birds) > 0
    /\ Len(pipes) = 1 /\ pipes[1].id = 2 /\ ~pipes[1].passed
    /\ SelPipe(birds, pipes) = 1

====
